---- MODULE Spec2Model ----
(***************************************************************************)
(* A model of the kapton DAQ script (src/daq.py): the construction of the  *)
(* readout chain from the configuration, the acquisition loop with its     *)
(* per-channel retry, the row handed to the CSV output every cycle, the    *)
(* progress reports, the SIGINT/SIGTERM flag and the shutdown.             *)
(*                                                                         *)
(* Time is counted in whole seconds.  The wall clock `now` is owned by the *)
(* environment: it advances while an instrument is being read and while    *)
(* the script sleeps, and never goes back.                                 *)
(***************************************************************************)
EXTENDS Integers, Sequences, FiniteSets, TLC

VARIABLES
  cfg,          \* the loaded configuration (sampling_time, refresh_rate, measurements)
  env,          \* what the environment may still do: failures, stalls, cycles
  pc,           \* where the script is: setup, head, acquire, record, sleep, progress, shutdown, done, crashed
  now,          \* time.time()
  log,          \* what logger.log was called with, in order
  output,       \* the CSVData object: opened/closed and the rows recorded
  measures,     \* the readout chain built so far
  keys,         \* the header keys
  init_time, curr_time, ite_count, perc_count, min_count,
  kill_now,     \* Killer.kill_now
  handler,      \* whether the Killer has installed its signal handlers
  idx,          \* acquire: the position in `measures` being read (1-based)
  fail_count,   \* acquire: consecutive failures of the channel being read
  readings,     \* acquire: the readings gathered so far in this cycle
  exit_status,  \* -1 while the process runs, then its exit status
  ghost         \* history, read by the properties only (never by the script)

vars == << cfg, env, pc, now, log, output, measures, keys, init_time, curr_time,
           ite_count, perc_count, min_count, kill_now, handler, idx, fail_count,
           readings, exit_status, ghost >>

----------------------------------------------------------------------------
(* Bounds of the model *)

\* the wall clock when the script starts
StartClock == 7
\* channels in a configuration
MaxChannels == 2
\* short runs: cycles the loop may begin, read failures the instruments may raise
ShortCycles == 2
ShortFails == 10
\* long runs (a whole bounded run of ten or more cycles): cycles the loop may begin
LongCycles == 12
\* how many times the environment may take longer than the minimum
MaxStalls == 1

\* how long one read attempt may take
ReadDelays == {0, 1}
\* how much longer than requested a sleep may last
SleepOvershoot == {0, 25}
\* what a real instrument may return
RawReadings == {0, 7}

----------------------------------------------------------------------------
(* Program constants *)

max_fails_more == 5 + 1

\* line 25
max_fails == 5

SupportedInstruments == {"dmm6500", "keithley485", "fluke3000", "virtual"}
SupportedQuantities == {"current", "voltage", "temperature", "virtual"}
SupportedProtocols == {"usbtmc", "serial", "gpib", "virtual"}

----------------------------------------------------------------------------
(* Configurations *)

\* one entry of cfg['measurements']
Measure(inst, quan, pro, scale, name, unit) ==
  [instrument |-> inst, quantity |-> quan, protocol |-> pro, device |-> "dev0",
   value |-> 5, scale |-> scale, name |-> name, unit |-> unit]

\* the entries configurations are drawn from: two that the script supports and
\* one unsupported value in each of the three dimensions
ChannelSpecs ==
  { Measure("virtual", "virtual", "virtual", 1, "bias", "V"),
    Measure("dmm6500", "current", "usbtmc", 2, "leak", "nA"),
    Measure("scope", "voltage", "usbtmc", 1, "trace", "V"),
    Measure("dmm6500", "resistance", "serial", 1, "ohm", "Ohm"),
    Measure("keithley485", "current", "ethernet", 1, "pico", "pA") }

Supported(measure) ==
  /\ measure.instrument \in SupportedInstruments
  /\ measure.quantity \in SupportedQuantities
  /\ measure.protocol \in SupportedProtocols

\* the ordered mappings cfg['measurements'] may hold: no entry twice
MeasurementLists ==
  UNION { { ms \in [1..n -> ChannelSpecs] : \A a, b \in 1..n : a # b => ms[a] # ms[b] }
          : n \in 0..MaxChannels }

\* short runs: every list of measurements, a bounded and an unbounded duration,
\* any pattern of read failures, reads that take no time
ShortConfigs ==
  { [cfg |-> [sampling_time |-> t, refresh_rate |-> 1, measurements |-> ms],
     env |-> [fails |-> ShortFails, stalls |-> 0, cycles |-> ShortCycles]]
    : t \in {0, 2}, ms \in MeasurementLists }

\* long runs: one virtual channel read for ten seconds or without limit, the
\* unlimited ones also with refresh rates of minutes; at most one read fails,
\* and reads and sleeps may take longer
LongConfigs ==
  { [cfg |-> [sampling_time |-> t, refresh_rate |-> r,
              measurements |-> << Measure("virtual", "virtual", "virtual", 1, "bias", "V") >>],
     env |-> [fails |-> 1, stalls |-> MaxStalls, cycles |-> LongCycles]]
    : t \in {0, 10}, r \in {0, 1, 3} }
  \cup
  { [cfg |-> [sampling_time |-> 0, refresh_rate |-> r,
              measurements |-> << Measure("virtual", "virtual", "virtual", 1, "bias", "V") >>],
     env |-> [fails |-> 1, stalls |-> MaxStalls, cycles |-> LongCycles]]
    : r \in {250, 700} }

Configs == ShortConfigs \cup LongConfigs

\* the runs in which termination is followed: refresh rates of seconds, and in
\* the short runs just the failures that exhaust one channel
FairConfigs ==
  { [cfg |-> c.cfg,
     env |-> [c.env EXCEPT !.fails = IF @ > max_fails THEN max_fails ELSE @]]
    : c \in {k \in Configs : k.cfg.refresh_rate <= 3} }

----------------------------------------------------------------------------
(* The logger and the output, as the script uses them *)

Info(text) == [sev |-> "info", text |-> text]
Error(text) == [sev |-> "error", text |-> text]
Fatal(text) == [sev |-> "fatal", text |-> text]

NoGhost ==
  [ cycles |-> 0,          \* cycles begun
    attempts |-> << >>,    \* this cycle's read attempts: <<channel, "ok"/"fail", raw value>>
    logStart |-> 0,        \* Len(log) when this cycle began
    rowsStart |-> 0,       \* rows recorded when this cycle began
    readTime |-> 0,        \* time spent so far in this cycle's reads
    stopSet |-> FALSE,     \* a signal has been handled
    stopRows |-> 0,        \* rows recorded since the first signal was handled
    stopCycles |-> 0,      \* cycles begun since the first signal was handled
    exhausted |-> FALSE,   \* a channel reached max_fails
    setupError |-> FALSE,  \* the construction of the readout chain raised
    ended |-> {},          \* why the loop ended
    lastElapsed |-> 0,     \* the elapsed time when the last cycle ended
    started |-> 0,         \* the clock when this cycle began
    prevStarted |-> 0,     \* the clock when the cycle before this one began
    skipped |-> FALSE      \* a cycle ended two or more 5-minute windows after the one before
  ]

\* The state after line 75: configuration loaded, logger and output file created.
InitWith(configs) ==
  /\ \E c \in configs : cfg = c.cfg /\ env = c.env
  /\ pc = "setup"
  /\ now = StartClock
  /\ log = << Info("Running DAQ with configuration"), Info("Created DAQ output file") >>
  /\ output = [closed |-> FALSE, rows |-> << >>]
  /\ measures = << >>
  /\ keys = << >>
  /\ init_time = 0 /\ curr_time = 0
  /\ ite_count = 0 /\ perc_count = 0 /\ min_count = 0
  /\ kill_now = FALSE /\ handler = FALSE
  /\ idx = 0 /\ fail_count = 0 /\ readings = << >>
  /\ exit_status = -1
  /\ ghost = NoGhost

\* the script starts with one of the configurations
Init == InitWith(Configs)

FairInit == InitWith(FairConfigs)

----------------------------------------------------------------------------
(* Construction of the readout chain: lines 78-132 *)

\* inst.Mode.<...> chosen for a quantity
ModeOf(quan) ==
  CASE quan = "current" -> "current_dc"
    [] quan = "voltage" -> "voltage_dc"
    [] quan = "temperature" -> "temperature"
    [] quan = "virtual" -> "default"

\* the Measurement appended for a supported entry
Measurement(measure) ==
  [inst |-> measure.instrument, meas |-> ModeOf(measure.quantity),
   value |-> measure.value, scale |-> measure.scale,
   name |-> measure.name, unit |-> measure.unit]

\* an exception nobody catches: the traceback ends the process with status 1
\* and nothing after the raise runs (output.close() included)
Raise(entries) ==
  /\ log' = log \o entries
  /\ pc' = "crashed"
  /\ exit_status' = 1
  /\ ghost' = [ghost EXCEPT !.setupError = TRUE]
  /\ UNCHANGED << measures >>

UnsupportedNoProtocol(measure) ==
  IF measure.instrument \notin SupportedInstruments THEN 1
  ELSE IF measure.quantity \notin SupportedQuantities THEN 2
  ELSE 0

\* which of the three checks of one pass raises: 0 when none does
Unsupported(measure) ==
  IF measure.instrument \notin SupportedInstruments THEN 1
  ELSE IF measure.quantity \notin SupportedQuantities THEN 2
  ELSE IF measure.protocol \notin SupportedProtocols THEN 3
  ELSE 0

\* one pass of the for loop over cfg['measurements'].values()
AddMeasurement ==
  /\ pc = "setup"
  /\ Len(measures) < Len(cfg.measurements)
  /\ LET measure == cfg.measurements[Len(measures) + 1]
         l1 == Info("Setting up instrument " \o measure.instrument)
         l2 == Info("Setting up " \o measure.quantity \o " measurement")
         l3 == Info("Initializing device " \o measure.device \o " with protocol " \o measure.protocol)
         bad == Unsupported(measure)
     IN \E opened \in BOOLEAN :
          IF bad = 1 THEN Raise(<< l1 >>)
          ELSE IF bad = 2 THEN Raise(<< l1, l2 >>)
          ELSE IF bad = 3 THEN Raise(<< l1, l2, l3 >>)
          ELSE IF measure.protocol # "virtual" /\ ~opened THEN Raise(<< l1, l2, l3 >>)
          ELSE /\ log' = log \o << l1, l2, l3 >>
               /\ measures' = Append(measures, Measurement(measure))
               /\ UNCHANGED << pc, exit_status, ghost >>
  /\ UNCHANGED << cfg, env, now, output, keys, init_time, curr_time, ite_count,
                  perc_count, min_count, kill_now, handler, idx, fail_count, readings >>

\* '{} [{}]'.format(m.name, m.unit)
Key(m) == m.name \o " [" \o m.unit \o "]"

\* lines 135-137
Keys(ms) == << "time" >> \o [j \in 1..Len(ms) |-> Key(ms[j])]

\* lines 134-147: the keys, the start of the clock, the Killer
StartLoop ==
  /\ pc = "setup"
  /\ Len(measures) = Len(cfg.measurements)
  /\ keys' = Keys(measures)
  /\ log' = log \o << Info("DAQ recording keys"), Info("Starting DAQ..."),
                      Info("DAQ sampling time"), Info("DAQ refresh rate") >>
  /\ init_time' = now
  /\ curr_time' = now
  /\ ite_count' = 0 /\ perc_count' = 0 /\ min_count' = 0
  /\ handler' = TRUE
  /\ pc' = "head"
  /\ UNCHANGED << cfg, env, now, output, measures, kill_now, idx, fail_count,
                  readings, exit_status, ghost >>

SignalToggle ==
  /\ handler
  /\ pc \notin {"done", "crashed"}
  /\ kill_now' = ~kill_now
  /\ ghost' = [ghost EXCEPT !.stopSet = TRUE]
  /\ UNCHANGED << cfg, env, pc, now, log, output, measures, keys, init_time, curr_time,
                  ite_count, perc_count, min_count, handler, idx, fail_count,
                  readings, exit_status >>

\* Killer.exit, run for a SIGINT or a SIGTERM once the handlers are installed
Signal ==
  /\ handler
  /\ pc \notin {"done", "crashed"}
  /\ kill_now' = TRUE
  /\ ghost' = [ghost EXCEPT !.stopSet = TRUE]
  /\ UNCHANGED << cfg, env, pc, now, log, output, measures, keys, init_time, curr_time,
                  ite_count, perc_count, min_count, handler, idx, fail_count,
                  readings, exit_status >>

----------------------------------------------------------------------------
(* The acquisition loop: lines 148-179, with acquire (lines 23-41) *)

ContinueForever == ~kill_now

ContinueDeaf ==
  cfg.sampling_time = 0 \/ (curr_time - init_time) < cfg.sampling_time

ContinueInclusive ==
  /\ (cfg.sampling_time = 0 \/ (curr_time - init_time) <= cfg.sampling_time)
  /\ ~kill_now

\* the while condition of line 148
Continue ==
  /\ (cfg.sampling_time = 0 \/ (curr_time - init_time) < cfg.sampling_time)
  /\ ~kill_now

\* line 148, and for a cycle that begins the entry into acquire (lines 24-29)
LoopHead ==
  /\ pc = "head"
  /\ IF Continue
     THEN /\ env.cycles > 0
          /\ env' = [env EXCEPT !.cycles = @ - 1]
          /\ pc' = "acquire"
          /\ idx' = 1
          /\ fail_count' = 0
          /\ readings' = << >>
          /\ ghost' = [ghost EXCEPT !.cycles = @ + 1, !.attempts = << >>,
                                    !.stopCycles = IF ghost.stopSet THEN @ + 1 ELSE @,
                                    !.logStart = Len(log),
                                    !.rowsStart = Len(output.rows),
                                    !.readTime = 0,
                                    !.prevStarted = ghost.started,
                                    !.started = now]
     ELSE /\ pc' = "shutdown"
          /\ ghost' = [ghost EXCEPT !.ended =
                         (IF kill_now THEN {"stop"} ELSE {}) \cup
                         (IF cfg.sampling_time # 0 /\
                             (curr_time - init_time) >= cfg.sampling_time
                          THEN {"duration"} ELSE {})]
          /\ UNCHANGED << env, idx, fail_count, readings >>
  /\ UNCHANGED << cfg, now, log, output, measures, keys, init_time, curr_time,
                  ite_count, perc_count, min_count, kill_now, handler, exit_status >>

\* what m.inst.measure(m.meas) may return: the virtual device gives back the
\* value it was configured with, a real instrument any reading
Returned(m) == IF m.inst = "virtual" THEN {m.value} ELSE RawReadings

ReadingUnscaled(m, raw) == raw

\* line 32: the value appended for a successful read
Reading(m, raw) == m.scale * raw

\* the environment takes d seconds over a read or a sleep
Stall(d) == IF d > 0 THEN [env EXCEPT !.stalls = @ - 1] ELSE env

BreakOnKill(result) == result.none \/ Len(result.list) = 0 \/ kill_now

\* line 151: "if not readings" leaves the loop for None and for an empty list
Break(result) == result.none \/ Len(result.list) = 0

ReadOkCarry ==
  /\ pc = "acquire"
  /\ idx <= Len(measures)
  /\ \E raw \in Returned(measures[idx]), d \in ReadDelays :
       /\ d > 0 => env.stalls > 0
       /\ env' = Stall(d)
       /\ now' = now + d
       /\ readings' = Append(readings, Reading(measures[idx], raw))
       /\ ghost' = [ghost EXCEPT !.attempts = Append(@, << idx, "ok", raw >>),
                                 !.readTime = @ + d]
  /\ idx' = idx + 1
  /\ UNCHANGED << cfg, pc, log, output, measures, keys, init_time, curr_time,
                  ite_count, perc_count, min_count, kill_now, handler, exit_status,
                  fail_count >>

\* lines 31-33: the read succeeds
ReadOk ==
  /\ pc = "acquire"
  /\ idx <= Len(measures)
  /\ \E raw \in Returned(measures[idx]), d \in ReadDelays :
       /\ d > 0 => env.stalls > 0
       /\ env' = Stall(d)
       /\ now' = now + d
       /\ readings' = Append(readings, Reading(measures[idx], raw))
       /\ ghost' = [ghost EXCEPT !.attempts = Append(@, << idx, "ok", raw >>),
                                 !.readTime = @ + d]
  /\ idx' = idx + 1
  /\ fail_count' = 0
  /\ UNCHANGED << cfg, pc, log, output, measures, keys, init_time, curr_time,
                  ite_count, perc_count, min_count, kill_now, handler, exit_status >>

RetryEntryQuiet(m) == Info("Failed to read " \o m.name \o ", retrying...")

\* line 35
RetryEntry(m) == Error("Failed to read " \o m.name \o ", retrying...")

\* line 38
KillEntry == Fatal("Too many consecutive fails, killing DAQ")

\* lines 34-39: the read raises; at max_fails acquire returns None and line 152 breaks
ReadFail ==
  /\ pc = "acquire"
  /\ idx <= Len(measures)
  /\ env.fails > 0
  /\ \E d \in ReadDelays :
       /\ d > 0 => env.stalls > 0
       /\ env' = [Stall(d) EXCEPT !.fails = @ - 1]
       /\ now' = now + d
       /\ LET retry == RetryEntry(measures[idx])
              kill == KillEntry
              tried == [ghost EXCEPT !.attempts = Append(@, << idx, "fail", 0 >>),
                                     !.readTime = @ + d]
          IN IF fail_count + 1 >= max_fails
             THEN /\ log' = log \o << retry, kill >>
                  /\ fail_count' = fail_count + 1
                  /\ readings' = << >>
                  /\ pc' = IF Break([none |-> TRUE, list |-> << >>])
                           THEN "shutdown" ELSE "record"
                  /\ ghost' = [tried EXCEPT !.exhausted = TRUE, !.ended = {"exhausted"}]
             ELSE /\ log' = Append(log, retry)
                  /\ fail_count' = fail_count + 1
                  /\ ghost' = tried
                  /\ UNCHANGED << pc, readings >>
  /\ UNCHANGED << cfg, output, measures, keys, init_time, curr_time, ite_count,
                  perc_count, min_count, kill_now, handler, idx, exit_status >>

\* line 41 and lines 150-152: acquire returns its list
AcquireReturn ==
  /\ pc = "acquire"
  /\ idx > Len(measures)
  /\ IF Break([none |-> FALSE, list |-> readings])
     THEN pc' = "shutdown" /\ ghost' = [ghost EXCEPT !.ended = {"empty"}]
     ELSE pc' = "record" /\ UNCHANGED ghost
  /\ UNCHANGED << cfg, env, now, log, output, measures, keys, init_time, curr_time,
                  ite_count, perc_count, min_count, kill_now, handler, idx,
                  fail_count, readings, exit_status >>

ValsAbsolute == << now >> \o readings

\* lines 155-156
Vals == << now - init_time >> \o readings

\* this cycle's successful reads, in the order read: << channel, value returned >>
RawOf(attempts) ==
  LET ok == SelectSeq(attempts, LAMBDA a : a[2] = "ok")
  IN [j \in 1..Len(ok) |-> << ok[j][1], ok[j][3] >>]

\* lines 154-159: the row is recorded, written and flushed
Record ==
  /\ pc = "record"
  /\ output' = [output EXCEPT !.rows = Append(@, [keys |-> keys, vals |-> Vals,
                                                  raw |-> RawOf(ghost.attempts)])]
  /\ ghost' = [ghost EXCEPT !.stopRows = IF ghost.stopSet THEN @ + 1 ELSE @]
  /\ pc' = "sleep"
  /\ UNCHANGED << cfg, env, now, log, measures, keys, init_time, curr_time, ite_count,
                  perc_count, min_count, kill_now, handler, idx, fail_count,
                  readings, exit_status >>

\* line 162: time.sleep(REFRESH_RATE) lasts at least REFRESH_RATE
Sleep ==
  /\ pc = "sleep"
  /\ \E over \in SleepOvershoot :
       /\ over > 0 => env.stalls > 0
       /\ env' = Stall(over)
       /\ now' = now + cfg.refresh_rate + over
  /\ pc' = "progress"
  /\ UNCHANGED << cfg, log, output, measures, keys, init_time, curr_time, ite_count,
                  perc_count, min_count, kill_now, handler, idx, fail_count,
                  readings, exit_status, ghost >>

\* int(x/y) for x >= 0 and y > 0
Floor(x, y) == x \div y

\* '{:0.0f}'.format(x/y) for x >= 0 and y > 0: the nearest integer, a tie to the even one
Round0(x, y) ==
  LET q == x \div y
      r == x % y
  IN IF 2 * r < y THEN q
     ELSE IF 2 * r > y THEN q + 1
     ELSE IF q % 2 = 0 THEN q ELSE q + 1

\* line 168
BoundedDue(delta_t) ==
  cfg.sampling_time # 0 /\ Floor(10 * delta_t, cfg.sampling_time) > perc_count

UnboundedDueMinutes(delta_t) ==
  cfg.sampling_time = 0 /\ 5 * Floor(delta_t, 60) > min_count

UnboundedDueLate(delta_t) ==
  cfg.sampling_time = 0 /\ Floor(delta_t, 300) > min_count

\* line 175: int(delta_t/300) > min_count/5
UnboundedDue(delta_t) ==
  cfg.sampling_time = 0 /\ 5 * Floor(delta_t, 300) > min_count

PercentUncapped(delta_t) == Round0(100 * delta_t, cfg.sampling_time)

\* lines 169 and 173: min(ratio, 100) as the message shows it
Percent(delta_t) ==
  IF 100 * delta_t >= 100 * cfg.sampling_time THEN 100
  ELSE Round0(100 * delta_t, cfg.sampling_time)

ProgressStale ==
  /\ pc = "progress"
  /\ curr_time' = now
  /\ ite_count' = ite_count + 1
  /\ LET delta_t == now - init_time
     IN /\ IF BoundedDue(delta_t)
           THEN /\ perc_count' = Floor(100 * delta_t, 10 * cfg.sampling_time)
                /\ log' = Append(log, [sev |-> "info", text |-> "DAQ running for",
                                       elapsed |-> delta_t, percent |-> Percent(delta_t),
                                       measurements |-> ite_count])
                /\ UNCHANGED min_count
           ELSE IF UnboundedDue(delta_t)
           THEN /\ min_count' = Floor(delta_t, 60)
                /\ log' = Append(log, [sev |-> "info", text |-> "DAQ running for",
                                       elapsed |-> delta_t,
                                       measurements |-> ite_count])
                /\ UNCHANGED perc_count
           ELSE UNCHANGED << perc_count, min_count, log >>
        /\ ghost' = [ghost EXCEPT !.lastElapsed = delta_t,
                                  !.skipped = @ \/ (delta_t \div 300 > ghost.lastElapsed \div 300 + 1)]
  /\ pc' = "head"
  /\ UNCHANGED << cfg, env, now, output, measures, keys, init_time, kill_now, handler,
                  idx, fail_count, readings, exit_status >>

\* lines 165-179: the counters and the progress message
Progress ==
  /\ pc = "progress"
  /\ curr_time' = now
  /\ ite_count' = ite_count + 1
  /\ LET delta_t == now - init_time
     IN /\ IF BoundedDue(delta_t)
           THEN /\ perc_count' = Floor(100 * delta_t, 10 * cfg.sampling_time)
                /\ log' = Append(log, [sev |-> "info", text |-> "DAQ running for",
                                       elapsed |-> delta_t, percent |-> Percent(delta_t),
                                       measurements |-> ite_count + 1])
                /\ UNCHANGED min_count
           ELSE IF UnboundedDue(delta_t)
           THEN /\ min_count' = Floor(delta_t, 60)
                /\ log' = Append(log, [sev |-> "info", text |-> "DAQ running for",
                                       elapsed |-> delta_t,
                                       measurements |-> ite_count + 1])
                /\ UNCHANGED perc_count
           ELSE UNCHANGED << perc_count, min_count, log >>
        /\ ghost' = [ghost EXCEPT !.lastElapsed = delta_t,
                                  !.skipped = @ \/ (delta_t \div 300 > ghost.lastElapsed \div 300 + 1)]
  /\ pc' = "head"
  /\ UNCHANGED << cfg, env, now, output, measures, keys, init_time, kill_now, handler,
                  idx, fail_count, readings, exit_status >>

\* lines 181-184, and the end of the script
Shutdown ==
  /\ pc = "shutdown"
  /\ log' = log \o << Info("...DONE!"), Info("Closing DAQ output file") >>
  /\ output' = [output EXCEPT !.closed = TRUE]
  /\ exit_status' = 0
  /\ pc' = "done"
  /\ UNCHANGED << cfg, env, now, measures, keys, init_time, curr_time, ite_count,
                  perc_count, min_count, kill_now, handler, idx, fail_count,
                  readings, ghost >>

Next ==
  \/ AddMeasurement
  \/ StartLoop
  \/ Signal
  \/ LoopHead
  \/ ReadOk
  \/ ReadFail
  \/ AcquireReturn
  \/ Record
  \/ Sleep
  \/ Progress
  \/ Shutdown

Spec == Init /\ [][Next]_vars

\* the statements of the script; the signal is the environment's
Step ==
  \/ AddMeasurement
  \/ StartLoop
  \/ LoopHead
  \/ ReadOk
  \/ ReadFail
  \/ AcquireReturn
  \/ Record
  \/ Sleep
  \/ Progress
  \/ Shutdown

\* the interpreter goes on to the next statement: every read returns (with a
\* value or an exception), every sleep ends, every write returns
FairSpec == FairInit /\ [][Next]_vars /\ WF_vars(Step)

----------------------------------------------------------------------------
(* Vocabulary of the properties *)

Rows == output.rows

\* the header the configuration asks for: 'time', then 'name [unit]' per entry
Header ==
  << "time" >> \o [j \in 1..Len(cfg.measurements) |->
                     cfg.measurements[j].name \o " [" \o cfg.measurements[j].unit \o "]"]

\* this cycle's failed reads of channel j
FailsOf(j) ==
  Cardinality({a \in 1..Len(ghost.attempts) :
                 ghost.attempts[a][1] = j /\ ghost.attempts[a][2] = "fail"})

\* channel j was read successfully in this cycle
ReadOf(j) ==
  \E a \in 1..Len(ghost.attempts) :
     ghost.attempts[a][1] = j /\ ghost.attempts[a][2] = "ok"

\* the positions of the log written since this cycle began
CycleLog == (ghost.logStart + 1)..Len(log)

\* the error entries this cycle logged for channel j
ErrorsOf(j) ==
  Cardinality({q \in CycleLog :
                 log[q] = Error("Failed to read " \o cfg.measurements[j].name \o ", retrying...")})

FatalLogged == {q \in 1..Len(log) : log[q].sev = "fatal"}

\* the positions of the progress messages in the log
ProgressLogged == {q \in 1..Len(log) : log[q].text = "DAQ running for"}

----------------------------------------------------------------------------
(* C1 *)

\* C1: every row handed to the output has 1 + channel_count values, the elapsed
\* time first and then, in the order of the configuration, scale_i times the
\* value channel i's successful read returned; the keys handed over with it are
\* 'time' and then 'name [unit]' per channel in the same order, in every cycle.
C1_RowsFollowRegistry ==
  \A r \in 1..Len(Rows) :
     LET row == Rows[r]
         n == Len(cfg.measurements)
     IN /\ Len(row.vals) = 1 + n
        /\ row.keys = Header
        /\ row.vals[1] \in 0..(now - init_time)
        /\ Len(row.raw) = n
        /\ \A j \in 1..n :
              /\ row.raw[j][1] = j
              /\ row.vals[j + 1] = cfg.measurements[j].scale * row.raw[j][2]

\* two rows of a two-channel run, the scaled instrument ahead of the virtual one
C1_Witness ==
  /\ Len(Rows) = 2
  /\ Rows[2].keys = << "time", "leak [nA]", "bias [V]" >>
  /\ Rows[2].vals[2] = 14
  /\ Rows[2].vals[3] = 5

----------------------------------------------------------------------------
(* C2 *)

\* C2: once a channel's read has failed 5 times in a row within a cycle, the
\* fatal entry follows that channel's 5th error entry in the log, the loop is
\* left for good and neither the failing cycle nor anything later adds a row,
\* whatever the earlier channels of the cycle returned.
C2_ExhaustionEndsRun ==
  \A j \in 1..Len(measures) :
     FailsOf(j) >= 5 =>
        /\ pc \in {"shutdown", "done"}
        /\ ghost.exhausted
        /\ Len(Rows) = ghost.rowsStart
        /\ Cardinality(FatalLogged) = 1
        /\ \A q \in FatalLogged :
              /\ q > ghost.logStart + 5
              /\ \A e \in (q - 5)..(q - 1) :
                    log[e] = Error("Failed to read " \o cfg.measurements[j].name
                                   \o ", retrying...")
              /\ \A e \in (q + 1)..Len(log) : log[e].sev = "info"

\* the second channel gives up in the second cycle, after the first was read
C2_Witness ==
  /\ pc = "done"
  /\ Len(measures) = 2
  /\ FailsOf(2) = 5
  /\ ReadOf(1)
  /\ FailsOf(1) = 2
  /\ Len(Rows) = 1

----------------------------------------------------------------------------
(* C3 *)

\* every channel of this cycle has been read successfully
AllRead == Len(measures) >= 1 /\ \A j \in 1..Len(measures) : ReadOf(j)

\* the error entries this cycle logged
CycleErrors == {q \in CycleLog : log[q].sev = "error"}

\* C3 (as amended): in a cycle in which every channel is read successfully
\* after fewer than 5 consecutive failures, the row is written with one value
\* per channel, each channel that failed k times has exactly k error entries in
\* that cycle's log, no fatal entry is logged, and the failed attempts add
\* nothing to the row.
C3_RetriesAbsorbed ==
  (AllRead /\ pc \notin {"acquire", "record"}) =>
     /\ Len(Rows) = ghost.rowsStart + 1
     /\ Len(Rows[Len(Rows)].vals) = 1 + Len(measures)
     /\ Len(Rows[Len(Rows)].raw) = Len(measures)
     /\ \A j \in 1..Len(measures) : FailsOf(j) < 5 /\ ErrorsOf(j) = FailsOf(j)
     /\ Cardinality(CycleErrors) =
          Cardinality({a \in 1..Len(ghost.attempts) : ghost.attempts[a][2] = "fail"})
     /\ \A q \in CycleLog : log[q].sev # "fatal"

\* Scenario B: the only channel fails 3 times and then succeeds, in two cycles running
C3_Witness ==
  /\ pc = "head"
  /\ Len(measures) = 1
  /\ Len(Rows) = 2
  /\ FailsOf(1) = 3
  /\ Cardinality({q \in 1..Len(log) : log[q].sev = "error"}) = 6

\* C3 as stated: a channel that is read successfully after fewer than 5
\* failures has its cycle's row written
C3_AsStated ==
  \A j \in 1..Len(measures) :
     (ReadOf(j) /\ FailsOf(j) < 5 /\ pc \in {"shutdown", "done"}) =>
        Len(Rows) = ghost.rowsStart + 1

----------------------------------------------------------------------------
(* C4 *)

\* C4: once a signal has set the flag, no further cycle begins, at most one row
\* (that of the cycle in progress) is appended, the script does not die but
\* ends by closing the output with status 0, and every row in the output is whole.
C4_StopWithinOneCycle ==
  ghost.stopSet =>
     /\ kill_now
     /\ ghost.stopCycles = 0
     /\ ghost.stopRows <= 1
     /\ pc # "crashed"
     /\ pc = "done" => output.closed /\ exit_status = 0
     /\ \A r \in 1..Len(Rows) :
           Len(Rows[r].vals) = Len(Rows[r].keys) /\ Len(Rows[r].keys) = 1 + Len(measures)

\* a signal during the second cycle: that cycle's row is still written, then the end
C4_Witness ==
  /\ ghost.stopSet
  /\ ghost.stopRows = 1
  /\ Len(Rows) = 2
  /\ pc = "done"
  /\ cfg.sampling_time = 0

----------------------------------------------------------------------------
(* C5 *)

\* C5: a run that ends by retry exhaustion ends with another last message and
\* another exit status than a run that ends normally, which exits with status 0
C5_FailureIsReported ==
  pc = "done" =>
     IF ghost.exhausted
     THEN exit_status # 0 /\ log[Len(log) - 1] # Info("...DONE!")
     ELSE exit_status = 0 /\ log[Len(log) - 1] = Info("...DONE!")

----------------------------------------------------------------------------
(* C6 *)

\* C6: after a fatal condition (an exception while the readout chain is built,
\* or retry exhaustion) the process ends with the output closed and whole rows only
C6_FatalLeavesOutputClosed ==
  (pc \in {"done", "crashed"} /\ (ghost.setupError \/ ghost.exhausted)) =>
     /\ output.closed
     /\ \A r \in 1..Len(Rows) : Len(Rows[r].vals) = Len(Rows[r].keys)

----------------------------------------------------------------------------
(* C7 *)

\* C7: with a sampling time set, a cycle runs only if the elapsed time at the
\* end of the previous cycle was below it; with none set, the loop ends only by
\* the stop flag or by retry exhaustion
C7_LoopEndsOnlyByStopOrExhaustion ==
  /\ (cfg.sampling_time # 0 /\ pc \in {"acquire", "record", "sleep", "progress"}) =>
        ghost.lastElapsed < cfg.sampling_time
  /\ (cfg.sampling_time = 0 /\ pc \in {"shutdown", "done"}) =>
        ghost.ended # {} /\ ghost.ended \subseteq {"stop", "exhausted"}

----------------------------------------------------------------------------
(* C8 *)

\* the entries of the configuration with an unrecognized instrument, quantity or protocol
Unrecognized == {j \in 1..Len(cfg.measurements) : ~Supported(cfg.measurements[j])}

\* C8: with an unrecognized instrument, quantity or protocol anywhere in the
\* configuration, the readout chain never grows past the entry before the
\* first such entry, the loop is never started (no handler installed, no cycle,
\* no read, no row), and the script can only end by the exception.
C8_SetupErrorBeforeLoop ==
  Unrecognized # {} =>
     /\ pc \in {"setup", "crashed"}
     /\ \A j \in Unrecognized : Len(measures) < j
     /\ pc = "crashed" => ghost.setupError /\ exit_status = 1
     /\ ~handler
     /\ ghost.cycles = 0
     /\ ghost.attempts = << >>
     /\ Rows = << >>

\* the second entry names an unknown protocol: the first was set up, then the raise
C8_Witness ==
  /\ pc = "crashed"
  /\ Len(cfg.measurements) = 2
  /\ Len(measures) = 1
  /\ cfg.measurements[2].protocol = "ethernet"
  /\ Rows = << >>

----------------------------------------------------------------------------
(* C9 *)

\* C9: the elapsed time of a row is never below that of the row before it, and
\* the first row's elapsed time lies between 0 and the time the first cycle's
\* reads took
C9_ElapsedTimeMonotone ==
  /\ \A r \in 2..Len(Rows) : Rows[r].vals[1] >= Rows[r - 1].vals[1]
  /\ Len(Rows) >= 1 => Rows[1].vals[1] >= 0
  /\ (Len(Rows) >= 1 /\ ghost.cycles = 1) => Rows[1].vals[1] <= ghost.readTime

\* the first cycle's read takes a second, so the first row is stamped 1; the
\* second row, a refresh period later, is stamped 2
C9_Witness ==
  /\ Len(Rows) = 2
  /\ ghost.cycles = 2
  /\ cfg.refresh_rate = 1
  /\ Rows[1].vals[1] = 1
  /\ Rows[2].vals[1] = 2

----------------------------------------------------------------------------
(* C10 *)

\* the script takes the step of lines 165-179
ProgressStep == pc = "progress" /\ pc' = "head"

\* C10: in a bounded run a progress message is logged exactly when
\* floor(10*elapsed/T) exceeds the last marker, the marker then becomes that
\* value (so the markers grow strictly); there are never more than 10 progress
\* messages and none shows more than 100 percent.
C10_DecileMessages ==
  /\ [](cfg.sampling_time # 0 =>
          /\ Cardinality(ProgressLogged) <= 10
          /\ \A q \in ProgressLogged : log[q].percent <= 100)
  /\ [][(ProgressStep /\ cfg.sampling_time # 0) =>
          LET marker == (10 * (now - init_time)) \div cfg.sampling_time
          IN IF marker > perc_count
             THEN /\ Len(log') = Len(log) + 1
                  /\ log'[Len(log')].text = "DAQ running for"
                  /\ perc_count' = marker
                  /\ perc_count' > perc_count
             ELSE log' = log /\ perc_count' = perc_count]_vars

\* ten seconds sampled every second: ten messages, the last at 100 percent
C10_Witness ==
  /\ cfg.sampling_time = 10
  /\ pc = "done"
  /\ Cardinality(ProgressLogged) = 10
  /\ log[Len(log) - 2].percent = 100
  /\ perc_count = 10

----------------------------------------------------------------------------
(* C11 *)

\* the position of the last progress message in the log
LastProgress == CHOOSE q \in ProgressLogged : \A o \in ProgressLogged : o <= q

\* C11: when a bounded run has left the loop because its duration elapsed, the
\* last progress message was logged by the last cycle (nothing but the closing
\* entries follows it, it shows that cycle's elapsed time and its count) and
\* it shows 100 percent.
C11_LastMessageShowsAll ==
  (cfg.sampling_time # 0 /\ pc \in {"shutdown", "done"} /\ "duration" \in ghost.ended) =>
     /\ ProgressLogged # {}
     /\ LastProgress > ghost.logStart
     /\ LastProgress = IF pc = "done" THEN Len(log) - 2 ELSE Len(log)
     /\ log[LastProgress].percent = 100
     /\ log[LastProgress].elapsed = ghost.lastElapsed
     /\ log[LastProgress].elapsed >= cfg.sampling_time
     /\ log[LastProgress].measurements = ite_count

\* ten seconds sampled every three: the fourth cycle ends at 12 s and logs 100 percent
C11_Witness ==
  /\ cfg.sampling_time = 10
  /\ cfg.refresh_rate = 3
  /\ pc = "done"
  /\ ghost.ended = {"duration"}
  /\ Cardinality(ProgressLogged) = 4
  /\ log[LastProgress].elapsed = 12
  /\ log[LastProgress].percent = 100

----------------------------------------------------------------------------
(* C12 *)

\* the 5-minute window in which the progress message at position q was logged
WindowOf(q) == log[q].elapsed \div 300

\* C12: in an unbounded run no two progress messages are logged in the same
\* 5-minute window of elapsed time, and a later message is in a later window.
C12_OneMessagePerWindow ==
  cfg.sampling_time = 0 =>
     \A q, o \in ProgressLogged : q < o => WindowOf(q) < WindowOf(o)

\* cycles of 250 s and one of 275 s: seven cycles end in the windows 0, 1, 2,
\* 3, 4, 5 and 5, and the last of them logs nothing
C12_Witness ==
  /\ cfg.sampling_time = 0
  /\ cfg.refresh_rate = 250
  /\ pc = "head"
  /\ ghost.cycles = 7
  /\ ghost.lastElapsed = 1775
  /\ Cardinality(ProgressLogged) = 5
  /\ WindowOf(LastProgress) = 5

----------------------------------------------------------------------------
(* C13 *)

\* C13 (as amended): after any cycle of an unbounded run the number of progress
\* messages logged so far is at most floor(E/300), E being the elapsed time at
\* which the cycle ended, and it is floor(E/300) as long as no cycle has ended
\* two or more 5-minute windows after the cycle before it.
C13_MessagesCountWindows ==
  (cfg.sampling_time = 0 /\ pc = "head") =>
     /\ Cardinality(ProgressLogged) <= ghost.lastElapsed \div 300
     /\ ~ghost.skipped => Cardinality(ProgressLogged) = ghost.lastElapsed \div 300

\* cycles of 250 s: after the fifth, at 1250 s, four messages have been logged
C13_Witness ==
  /\ cfg.sampling_time = 0
  /\ cfg.refresh_rate = 250
  /\ pc = "head"
  /\ ghost.lastElapsed = 1250
  /\ ~ghost.skipped
  /\ Cardinality(ProgressLogged) = 4

\* C13 as stated: after any cycle of an unbounded run the number of progress
\* messages logged so far is floor(E/300), whatever the refresh rate
C13_AsStated ==
  (cfg.sampling_time = 0 /\ pc = "head") =>
     Cardinality(ProgressLogged) = ghost.lastElapsed \div 300

----------------------------------------------------------------------------
(* C14 *)

\* ceil(x/y) for x >= 0 and y > 0
Ceil(x, y) == (x + y - 1) \div y

\* every cycle so far has lasted its sleep of refresh_rate and no longer
NominalTiming == ghost.lastElapsed = ghost.cycles * cfg.refresh_rate

\* C14: in a bounded run with refresh rate R > 0 two consecutive cycles begin
\* at least R apart; when the run has ended without a stop signal and without
\* retry exhaustion, at least 1 and at most ceil(T/R) rows have been written,
\* ceil(T/R) of them when nothing but the sleeps took time, and a virtual
\* channel of scale 1 and value 5 reads 5 in every row.
C14_RowsWithinDuration ==
  (cfg.sampling_time # 0 /\ cfg.refresh_rate > 0) =>
     /\ ghost.cycles >= 2 => ghost.started - ghost.prevStarted >= cfg.refresh_rate
     /\ (pc = "done" /\ "stop" \notin ghost.ended /\ ~ghost.exhausted) =>
           /\ Len(Rows) >= 1
           /\ Len(Rows) <= Ceil(cfg.sampling_time, cfg.refresh_rate)
           /\ NominalTiming => Len(Rows) = Ceil(cfg.sampling_time, cfg.refresh_rate)
           /\ \A r \in 1..Len(Rows), j \in 1..Len(measures) :
                 (measures[j].inst = "virtual" /\ measures[j].scale = 1) =>
                    Rows[r].vals[j + 1] = 5

----------------------------------------------------------------------------
(* C15 *)

\* the script is inside a cycle: between the loop head and the next loop head
InCycle == pc \in {"acquire", "record", "sleep", "progress"}

\* everything the script owns but the stop flag
Owned == << cfg, env, pc, now, log, output, measures, keys, init_time, curr_time,
            ite_count, perc_count, min_count, handler, idx, fail_count, readings,
            exit_status >>

\* C15: a signal changes the stop flag and nothing else; with the flag set
\* inside a cycle every step of the cycle is as possible as before (the read,
\* the failed read while reads can fail, the return, the row, the sleep, the
\* progress step), the cycle moves on as it does without the flag (it leaves
\* the loop only by retry exhaustion, logged as fatal, or by an empty list),
\* and the row of a cycle whose reads all succeed is written.
C15_SignalLeavesCycleAlone ==
  /\ [][kill_now' # kill_now => UNCHANGED Owned]_vars
  /\ []((kill_now /\ InCycle) =>
          /\ (pc = "acquire" /\ idx <= Len(measures)) => ENABLED ReadOk
          /\ (pc = "acquire" /\ idx <= Len(measures) /\ env.fails > 0) => ENABLED ReadFail
          /\ (pc = "acquire" /\ idx > Len(measures)) => ENABLED AcquireReturn
          /\ pc = "record" => ENABLED Record
          /\ pc = "sleep" => ENABLED Sleep
          /\ pc = "progress" => ENABLED Progress)
  /\ [][(kill_now /\ InCycle /\ pc' # pc) =>
          /\ pc = "acquire" =>
                \/ pc' = "record" /\ AllRead
                \/ /\ pc' = "shutdown"
                   /\ \/ Len(measures) = 0
                      \/ /\ fail_count' = max_fails
                         /\ ghost'.exhausted
                         /\ log'[Len(log')] = KillEntry
          /\ pc = "record" => pc' = "sleep" /\ Len(Rows') = Len(Rows) + 1
          /\ pc = "sleep" => pc' = "progress"
          /\ pc = "progress" => pc' = "head"]_vars
  /\ []((ghost.stopSet /\ AllRead /\ pc \notin {"acquire", "record"}) =>
          Len(Rows) = ghost.rowsStart + 1)

\* the signal arrives in the second cycle, whose only channel fails twice: the
\* retries go on, the row is written, and only then does the loop end
C15_Witness ==
  /\ kill_now
  /\ pc = "shutdown"
  /\ ghost.cycles = 2
  /\ ghost.stopCycles = 0
  /\ ghost.stopRows = 1
  /\ FailsOf(1) = 2
  /\ Len(Rows) = 2
  /\ ghost.ended = {"stop"}

----------------------------------------------------------------------------
(* C16 *)

\* C16: the stop flag is false until the handlers are installed and when the
\* loop starts, it is true exactly when a signal has been handled, once true
\* it stays true (no step of the loop or of the handler resets it), and the
\* step that sets it changes nothing else.
C16_StopFlagMonotone ==
  /\ [](~handler => ~kill_now)
  /\ [](kill_now <=> ghost.stopSet)
  /\ [][(pc = "setup" /\ pc' = "head") => ~kill_now']_vars
  /\ [][kill_now => kill_now']_vars
  /\ [][(~kill_now /\ kill_now') =>
          /\ pc' = pc /\ log' = log /\ output' = output /\ now' = now
          /\ << idx, fail_count, readings >>' = << idx, fail_count, readings >>
          /\ << ite_count, perc_count, min_count >>' = << ite_count, perc_count, min_count >>
          /\ << init_time, curr_time, exit_status >>' = << init_time, curr_time, exit_status >>]_vars

\* a bounded run stopped in its first cycle: the flag is still set at the end
C16_Witness ==
  /\ kill_now
  /\ pc = "done"
  /\ cfg.sampling_time = 2
  /\ ghost.ended = {"stop"}
  /\ Len(Rows) = 1
  /\ output.closed

----------------------------------------------------------------------------
(* C17 *)

\* C17: the run is aborted by retry exhaustion exactly when one channel has
\* failed 5 times in the cycle in progress (a channel's failures within a
\* cycle are consecutive); while a channel is being read the fail counter is
\* that channel's number of failures in this cycle, whatever other channels
\* and earlier cycles have seen, so 4 failures per channel never abort.
C17_CounterPerChannelAndCycle ==
  /\ ghost.exhausted <=> \E j \in 1..Len(measures) : FailsOf(j) >= 5
  /\ (pc = "acquire" /\ idx <= Len(measures)) => fail_count = FailsOf(idx)
  /\ \A j \in 1..Len(measures) : FailsOf(j) <= 5
  /\ \A j \in 1..Len(measures), a \in 1..Len(ghost.attempts) :
        (ghost.attempts[a][1] = j /\ ghost.attempts[a][2] = "ok") =>
           \A b \in (a + 1)..Len(ghost.attempts) : ghost.attempts[b][1] # j

\* ten failed reads and no abort: two in the first cycle, four on each of the
\* two channels in the second, and both cycles have written their row
C17_Witness ==
  /\ pc = "head"
  /\ Len(measures) = 2
  /\ ghost.cycles = 2
  /\ FailsOf(1) = 4
  /\ FailsOf(2) = 4
  /\ Cardinality({q \in 1..Len(log) : log[q].sev = "error"}) = 10
  /\ ~ghost.exhausted
  /\ Len(Rows) = 2

----------------------------------------------------------------------------
(* C18 *)

\* C18: once every channel of a cycle has been read successfully, with any
\* number of channels and with none, the cycle appends exactly one row and
\* goes on to the sleep and the progress step: the loop is left only at its
\* head, by the stop flag or the duration.
C18_AllSucceedAppendsOneRow ==
  (/\ ghost.cycles >= 1
   /\ \A j \in 1..Len(measures) : ReadOf(j)
   /\ pc \notin {"acquire", "record"}) =>
     /\ Len(Rows) = ghost.rowsStart + 1
     /\ Len(Rows[Len(Rows)].vals) = 1 + Len(measures)
     /\ pc \in {"sleep", "progress", "head", "shutdown", "done"}
     /\ ghost.ended \subseteq {"stop", "duration"}

----------------------------------------------------------------------------
(* C19 *)

\* the script has ended by its last statement, the output file closed
Terminated == pc = "done" /\ output.closed

\* C19: when every read returns and every cycle takes time (refresh rate above
\* 0), a bounded run that has reached the loop ends with the output closed,
\* with or without a signal; any run, an unbounded one too, ends with the
\* output closed once the stop flag is set; and after the end no cycle begins
\* and no row is appended.
C19_RunTerminates ==
  /\ (pc = "head" /\ cfg.sampling_time # 0 /\ cfg.refresh_rate > 0) ~> Terminated
  /\ kill_now ~> Terminated
  /\ [][pc = "done" => (pc' = "done" /\ output' = output /\
                         ghost'.cycles = ghost.cycles)]_vars

\* an unbounded run stopped during its fourth cycle: four rows, output closed
C19_Witness ==
  /\ Terminated
  /\ cfg.sampling_time = 0
  /\ ghost.ended = {"stop"}
  /\ ghost.cycles = 4
  /\ Len(Rows) = 4

----------------------------------------------------------------------------
(* C20 *)

\* C20: at the loop head and after the loop the cycle counter is the number of
\* rows appended; a cycle appends at most one row; the counter grows by one at
\* a time and only once the cycle's row is in the output; and the count a
\* progress message shows is the number of rows in the output when it is logged.
C20_CountIsRows ==
  /\ [](pc \in {"head", "shutdown", "done"} => ite_count = Len(Rows))
  /\ [](Len(Rows) \in {ghost.rowsStart, ghost.rowsStart + 1})
  /\ [](Len(Rows) <= ghost.cycles)
  /\ [][ite_count' # ite_count =>
          /\ ite_count' = ite_count + 1
          /\ Len(Rows) = ghost.rowsStart + 1
          /\ ite_count' = Len(Rows')]_vars
  /\ [][(ProgressStep /\ Len(log') > Len(log)) =>
          log'[Len(log')].measurements = Len(Rows')]_vars

\* cycles of 250 s: the message of the third cycle, the second of the run,
\* shows 3 measurements with 3 rows in the output
C20_Witness ==
  /\ pc = "head"
  /\ cfg.refresh_rate = 250
  /\ ite_count = 3
  /\ Len(Rows) = 3
  /\ Cardinality(ProgressLogged) = 2
  /\ LastProgress = Len(log)
  /\ log[LastProgress].measurements = 3

====
